---------------------------- MODULE Spec2Model ----------------------------
(***************************************************************************)
(* Model of the option pricing engines of option_pricing/models.py and the *)
(* payoff family of option_pricing/options.py.                             *)
(*                                                                         *)
(* Floating point numbers are modelled as fixed-point numbers of           *)
(* resolution 1/Scale, extended with the IEEE special values the code can  *)
(* produce: a number is a record [c, v] with c = "fin" (v is the value     *)
(* times Scale), c = "inf" (v is the sign) or c = "nan".  Python float     *)
(* operations raise where numpy operations yield inf or nan; the model     *)
(* keeps the two apart.                                                    *)
(***************************************************************************)
EXTENDS Integers, Sequences, FiniteSets, TLC

\* ------------------------------------------------------------------ bounds
\* Largest number of periods a BinomialModel is constructed with.
MaxPeriods == 2
\* Fixed-point resolution: a finite number x is stored as x * Scale, rounded toward zero.
Scale == 100

\* ----------------------------------------------------------------- numbers
Sign(x) == IF x > 0 THEN 1 ELSE IF x < 0 THEN -1 ELSE 0
Abs(x) == IF x < 0 THEN -x ELSE x
\* division rounding toward zero: like IEEE rounding it is symmetric in the
\* signs of its operands (b # 0)
TruncDiv(a, b) == Sign(a) * Sign(b) * (Abs(a) \div Abs(b))

Fin(x) == [c |-> "fin", v |-> x]
NaN == [c |-> "nan", v |-> 0]
Inf(s) == [c |-> "inf", v |-> s]
Zero == Fin(0)
One == Fin(Scale)
\* n as a number (an int converted to float)
Num(n) == Fin(n * Scale)
\* p percent as a number
Pct(p) == Fin(TruncDiv(p * Scale, 100))

IsNaN(a) == a.c = "nan"
IsFin(a) == a.c = "fin"
IsInf(a) == a.c = "inf"
\* sign of a non-nan number
Sgn(a) == IF IsFin(a) THEN Sign(a.v) ELSE a.v

FNeg(a) == IF IsNaN(a) THEN NaN ELSE [c |-> a.c, v |-> -a.v]

FAdd(a, b) ==
  IF IsNaN(a) \/ IsNaN(b) THEN NaN
  ELSE IF IsInf(a) /\ IsInf(b) THEN (IF a.v = b.v THEN a ELSE NaN)
  ELSE IF IsInf(a) THEN a
  ELSE IF IsInf(b) THEN b
  ELSE Fin(a.v + b.v)

FSub(a, b) == FAdd(a, FNeg(b))

FMul(a, b) ==
  IF IsNaN(a) \/ IsNaN(b) THEN NaN
  ELSE IF IsInf(a) \/ IsInf(b)
       THEN (IF Sgn(a) = 0 \/ Sgn(b) = 0 THEN NaN ELSE Inf(Sgn(a) * Sgn(b)))
  ELSE Fin(TruncDiv(a.v * b.v, Scale))

\* numpy true division: a zero divisor yields inf or nan (with a warning)
NpDiv(a, b) ==
  IF IsNaN(a) \/ IsNaN(b) THEN NaN
  ELSE IF IsInf(b) THEN (IF IsInf(a) THEN NaN ELSE Zero)
  ELSE IF b.v = 0 THEN (IF Sgn(a) = 0 THEN NaN ELSE Inf(Sgn(a)))
  ELSE IF IsInf(a) THEN Inf(a.v * Sign(b.v))
  ELSE Fin(TruncDiv(a.v * Scale, b.v))

\* Python float division of finite operands; the caller checks b for zero
\* (ZeroDivisionError) before using it.
PyDiv(a, b) == Fin(TruncDiv(a.v * Scale, b.v))

\* IEEE comparisons: false when an operand is nan
FLt(a, b) ==
  /\ ~IsNaN(a) /\ ~IsNaN(b)
  /\ IF IsFin(a) /\ IsFin(b) THEN a.v < b.v
     ELSE IF IsInf(a) /\ IsInf(b) THEN a.v < b.v
     ELSE IF IsInf(a) THEN a.v < 0
     ELSE b.v > 0
FLe(a, b) == ~IsNaN(a) /\ ~IsNaN(b) /\ ~FLt(b, a)

\* np.maximum / np.minimum of two scalars: nan propagates
NpMaximum(a, b) ==
  IF IsNaN(a) \/ IsNaN(b) THEN NaN ELSE IF FLt(a, b) THEN b ELSE a
NpMinimum(a, b) ==
  IF IsNaN(a) \/ IsNaN(b) THEN NaN ELSE IF FLt(b, a) THEN b ELSE a

\* sum of the exponential series of x >= 0 (fixed point), term by term until
\* the terms vanish at the model's resolution
RECURSIVE ExpSeries(_, _, _, _)
ExpSeries(x, k, term, acc) ==
  IF term = 0 THEN acc
  ELSE ExpSeries(x, k + 1, (term * x) \div (Scale * (k + 1)), acc + term)
FixExp(x) ==
  IF x >= 0 THEN ExpSeries(x, 0, Scale, 0)
  ELSE (Scale * Scale) \div ExpSeries(-x, 0, Scale, 0)

\* math.exp / np.exp
Exp(a) ==
  IF IsNaN(a) THEN NaN
  ELSE IF IsInf(a) THEN (IF a.v > 0 THEN a ELSE Zero)
  ELSE Fin(FixExp(a.v))

\* floor of the square root of a natural number
RECURSIVE ISqrtFrom(_, _)
ISqrtFrom(n, r) == IF (r + 1) * (r + 1) > n THEN r ELSE ISqrtFrom(n, r + 1)
\* math.sqrt of a finite non-negative number (the caller checks the sign:
\* ValueError)
MathSqrt(a) == Fin(ISqrtFrom(a.v * Scale, 0))
\* np.sqrt: nan for a negative operand
NpSqrt(a) ==
  IF IsNaN(a) THEN NaN
  ELSE IF IsInf(a) THEN (IF a.v > 0 THEN a ELSE NaN)
  ELSE IF a.v < 0 THEN NaN
  ELSE MathSqrt(a)

\* float ** int for a non-negative int exponent, by repeated multiplication
RECURSIVE Pow(_, _)
Pow(a, e) == IF e = 0 THEN One ELSE FMul(Pow(a, e - 1), a)

\* natural logarithm of x in [Scale, 2 * Scale) (fixed point):
\* 2 * atanh((x-1)/(x+1)), summed until the terms vanish
RECURSIVE LnSeries(_, _, _, _)
LnSeries(z2, k, zk, acc) ==
  IF zk = 0 THEN acc
  ELSE LnSeries(z2, k + 2, (zk * z2) \div Scale, acc + (2 * zk) \div k)
LnNear(x) ==
  LET z == ((x - Scale) * Scale) \div (x + Scale)
  IN  LnSeries((z * z) \div Scale, 1, z, 0)
\* natural logarithm of x >= Scale: ln(x) = ln(2) + ln(x / 2)
RECURSIVE FixLn(_)
FixLn(x) ==
  IF x < 2 * Scale THEN LnNear(x)
  ELSE LnNear((3 * Scale) \div 2) + LnNear((4 * Scale) \div 3) + FixLn(x \div 2)
\* np.log: -inf at 0, nan below 0
NpLog(a) ==
  IF IsNaN(a) THEN NaN
  ELSE IF IsInf(a) THEN (IF a.v > 0 THEN a ELSE NaN)
  ELSE IF a.v < 0 THEN NaN
  ELSE IF a.v = 0 THEN Inf(-1)
  ELSE IF a.v >= Scale THEN Fin(FixLn(a.v))
  ELSE Fin(-FixLn((Scale * Scale) \div a.v))

\* scipy.stats.norm.cdf(x, 0.0, 1.0), by the logistic approximation
\* 1 / (1 + exp(-1.702 x)), whose error is below the model's resolution
NormCdf(a) ==
  IF IsNaN(a) THEN NaN
  ELSE IF IsInf(a) THEN (IF a.v > 0 THEN One ELSE Zero)
  ELSE Fin((Scale * Scale) \div (Scale + FixExp(-TruncDiv(a.v * 1702, 1000))))

\* ------------------------------------------------------------ data model
\* options.py: Underlying(base_beginning, volatility, dividend, interest_rate)
Underlying(base_beginning, volatility, dividend, interest_rate) ==
  [base_beginning |-> base_beginning, volatility |-> volatility,
   dividend |-> dividend, interest_rate |-> interest_rate]

\* options.py: Option(underlying, T, strike_price, american) and its
\* subclasses Call, Put and SprintCertificate(cap, factor); kind is the
\* class of the object.  cap and factor are fields of SprintCertificate only
\* and are zero for the other classes.  The underlying is held by the
\* variable of that name.
MakeOption(kind, T, strike_price, american, cap, factor) ==
  [kind |-> kind, T |-> T, strike_price |-> strike_price,
   american |-> american, cap |-> cap, factor |-> factor]

\* The underlyings priced: a spot of 100 with
\*   volatility 20%, no rates;   volatility 20%, rate 5%, dividend 2%;
\*   volatility 20%, rate 50% (up-probability above 1);
\*   volatility 30%, rate -50% (up-probability below 0);
\*   volatility 0 (u = d).
Underlyings ==
  { Underlying(Num(100), Pct(20), Zero, Zero),
    Underlying(Num(100), Pct(20), Pct(2), Pct(5)),
    Underlying(Num(100), Pct(20), Zero, Pct(50)),
    Underlying(Num(100), Pct(30), Zero, Pct(-50)),
    Underlying(Num(100), Zero, Zero, Pct(5)) }

Maturities == {Num(-1), Zero, One}
Strikes == {Zero, Num(100), Num(120)}
Kinds == {"Call", "Put", "SprintCertificate"}

\* The contracts priced, before the exercise style is chosen.
Contracts ==
  { MakeOption(k, T, K, FALSE,
               IF k = "SprintCertificate" THEN Num(120) ELSE Zero,
               IF k = "SprintCertificate" THEN Num(2) ELSE Zero)
      : k \in Kinds, T \in Maturities, K \in Strikes }

PeriodsDomain == (-2)..MaxPeriods

\* Prices the payoff functions are evaluated at on their own.
PayoffPrices == {Zero, Num(50), Num(100), Num(150)}
\* np.linspace(50, 150, num=3)
Linspace == <<Num(50), Num(100), Num(150)>>

\* ------------------------------------------------------------------ payoffs
\* Call.option_payoff on a scalar price
CallPayoff(o, price) == NpMaximum(Zero, FSub(price, o.strike_price))

\* A Put that pays like a Call (the subtraction the wrong way round).
PutPayoffAsCall(o, price) == NpMaximum(Zero, FSub(price, o.strike_price))

\* Put.option_payoff on a scalar price
PutPayoff(o, price) == NpMaximum(Zero, FSub(o.strike_price, price))

\* SprintCertificate.option_payoff on a scalar price
SprintPayoff(o, price) ==
  LET cap_payout == FMul(FSub(o.cap, o.strike_price), o.factor)
  IN  FAdd(NpMinimum(cap_payout,
                     NpMaximum(FSub(price, o.strike_price),
                               FMul(FSub(price, o.strike_price), o.factor))),
           price)

\* option.option_payoff(price): dispatch on the class of the option
OptionPayoff(o, price) ==
  CASE o.kind = "Call" -> CallPayoff(o, price)
    [] o.kind = "Put" -> PutPayoff(o, price)
    [] o.kind = "SprintCertificate" -> SprintPayoff(o, price)

\* option.option_payoff on a 1-d array: numpy applies the arithmetic element
\* by element and returns a new array
OptionPayoff1d(o, prices) ==
  [k \in DOMAIN prices |-> OptionPayoff(o, prices[k])]

\* option.option_payoff on a 2-d array
OptionPayoff2d(o, tree) ==
  [a \in DOMAIN tree |-> [b \in DOMAIN tree[a] |-> OptionPayoff(o, tree[a][b])]]

\* -------------------------------------------------------------------- state
VARIABLES
  periods,      \* BinomialModel.periods
  underlying,   \* the Underlying of the option
  option,       \* the Option handed to the running call
  engine,       \* the engine of the running (or last) call
  pc,           \* position of the running call
  err,          \* the exception a call ended in ("" when none)
  loc,          \* the running call's scalar locals and scalar argument
  heap,         \* the arrays allocated by the running call, by reference
  stock_tree,   \* reference of the stock lattice (0: not yet bound)
  payoff_tree,  \* reference of the payoff lattice
  price_tree,   \* reference of the value lattice
  i, j,         \* the loops' row and column
  ret,          \* the price a call returned
  hist,         \* the caller's copy of the value lattice returned per style
  built,        \* nodes written by price_tree, in order
  induced       \* nodes computed by recurse_option_tree, with their reads

vars == <<periods, underlying, option, engine, pc, err, loc, heap, stock_tree,
          payoff_tree, price_tree, i, j, ret, hist, built, induced>>

NoLoc == [delta_t |-> Zero, u |-> Zero, d |-> Zero, pu |-> Zero, pd |-> Zero,
          d1 |-> Zero, d2 |-> Zero, Nd1 |-> Zero, Nd2 |-> Zero,
          Nminusd1 |-> Zero, Nminusd2 |-> Zero, price |-> Zero]
NoHist == [set |-> FALSE, tree |-> <<>>]

\* ---------------------------------------------------------------- lattices
\* np.zeros((n + 1, n + 1)), indexed [row][column] from 0
Zeros(n) == [a \in 0..n |-> [b \in 0..n |-> Zero]]

At(tree, node) == tree[node[1]][node[2]]
Store(tree, node, x) == [tree EXCEPT ![node[1]][node[2]] = x]

\* the nodes of a lattice of n periods: row <= column <= n
Nodes(n) == {<<a, b>> \in (0..n) \X (0..n) : a <= b}

\* range(n + 1): the columns of price_tree's outer loop
BuildColumns(n) == [k \in 1..(n + 1) |-> k - 1]
\* range(j + 1): the rows of both inner loops
Rows(col) == [k \in 1..(col + 1) |-> k - 1]
\* Backward induction that walks the columns upwards: range(self.periods).
InductionColumnsAscending(n) == [k \in 1..n |-> k - 1]

\* range(self.periods - 1, -1, -1): the columns of backward induction
InductionColumns(n) == [k \in 1..n |-> n - k]

\* the position of x in a range
Pos(seq, x) == CHOOSE k \in DOMAIN seq : seq[k] = x
IsLast(seq, x) == Pos(seq, x) = Len(seq)
After(seq, x) == seq[Pos(seq, x) + 1]

\* Induction in place, without the copy: the same array under a second name.
DeepCopyAlias(h, ref) == [heap |-> h, ref |-> ref]

\* deepcopy(tree): a new array with the same contents
DeepCopy(h, ref) == [heap |-> Append(h, h[ref]), ref |-> Len(h) + 1]

\* -------------------------------------------------- BinomialModel formulas
\* delta_t = T / self.periods (periods # 0)
DeltaT(T, n) == PyDiv(T, Num(n))
\* u = math.exp(underlying.volatility * math.sqrt(delta_t)) (delta_t >= 0)
UpFactor(volatility, delta_t) == Exp(FMul(volatility, MathSqrt(delta_t)))
\* d = 1 / u (u # 0)
DownFactor(u) == PyDiv(One, u)
\* pu = (np.exp((r - div) * delta_t) - d) / (u - d)
UpProbability(r, div, delta_t, u, d) ==
  NpDiv(FSub(Exp(FMul(FSub(r, div), delta_t)), d), FSub(u, d))
\* np.exp(-1 * (r - div) * delta_t)
Discount(r, div, delta_t) == Exp(FMul(FMul(Num(-1), FSub(r, div)), delta_t))

\* The exponents of the up and the down move exchanged.
NodePriceSwapped(price_beginning, up, down, row, col) ==
  FMul(FMul(price_beginning, Pow(up, col - row)), Pow(down, row))

\* price_beginning * (up**u) * (down ** (j - u))
NodePrice(price_beginning, up, down, row, col) ==
  FMul(FMul(price_beginning, Pow(up, row)), Pow(down, col - row))

\* the entries recurse_option_tree reads for node [i][j]
UpChild(row, col) == <<row + 1, col + 1>>
DownChild(row, col) == <<row, col + 1>>
Own(row, col) == <<row, col>>

\* (pu * price_tree[i + 1][j + 1] + pd * price_tree[i][j + 1])
\*   * np.exp(-1 * (r - div) * delta_t)
Continuation(tree, row, col, pu, pd, r, div, delta_t) ==
  FMul(FAdd(FMul(pu, At(tree, UpChild(row, col))),
            FMul(pd, At(tree, DownChild(row, col)))),
       Discount(r, div, delta_t))

\* Early exercise compared with the entry of the next column instead.
IntrinsicStale(tree, row, col) == At(tree, DownChild(row, col))

\* the early exercise value compared with: price_tree[i][j]
Intrinsic(tree, row, col) == At(tree, Own(row, col))

\* the value stored at node [i][j]
NodeValue(tree, o, row, col, pu, pd, r, div, delta_t) ==
  LET option_price == Continuation(tree, row, col, pu, pd, r, div, delta_t)
  IN  IF o.american
      THEN NpMaximum(option_price, Intrinsic(tree, row, col))
      ELSE option_price

\* the entries read while node [i][j] is computed, with the values read
Reads(tree, o, row, col) ==
  { [node |-> n, val |-> At(tree, n)] :
      n \in {UpChild(row, col), DownChild(row, col)}
            \cup (IF o.american THEN {Own(row, col)} ELSE {}) }

\* ------------------------------------------------------------------- Init
Init ==
  /\ periods \in PeriodsDomain
  /\ underlying \in Underlyings
  /\ option \in Contracts
  /\ engine = "none"
  /\ pc = "idle"
  /\ err = ""
  /\ loc = NoLoc
  /\ heap = <<>>
  /\ stock_tree = 0
  /\ payoff_tree = 0
  /\ price_tree = 0
  /\ i = 0
  /\ j = 0
  /\ ret = Zero
  /\ hist = [a \in BOOLEAN |-> NoHist]
  /\ built = <<>>
  /\ induced = <<>>

Ended == pc \in {"idle", "returned", "raised", "payoff_done"}

\* what a call leaves of the previous call: nothing but the caller's copies
NewFrame(arrays) ==
  /\ err' = ""
  /\ heap' = arrays
  /\ stock_tree' = 0
  /\ payoff_tree' = 0
  /\ price_tree' = 0
  /\ i' = 0
  /\ j' = 0
  /\ built' = <<>>
  /\ induced' = <<>>

Raise(e) ==
  /\ pc' = "raised"
  /\ err' = e

\* ---------------------------------------------- BinomialModel(periods)
\* The caller prices the contract, European or American, with the binomial
\* engine.
CallBinomial(american) ==
  /\ Ended
  /\ option' = [option EXCEPT !.american = american]
  /\ engine' = "Binomial"
  /\ pc' = "calc_option_price"
  /\ NewFrame(<<>>)
  /\ loc' = NoLoc
  /\ ret' = Zero
  /\ UNCHANGED <<periods, underlying, hist>>

\* calc_option_price, the derivation of delta_t, u, d, pu, pd
Derive ==
  /\ engine = "Binomial"
  /\ pc = "calc_option_price"
  /\ IF periods = 0
     THEN Raise("ZeroDivisionError") /\ UNCHANGED loc
     ELSE LET delta_t == DeltaT(option.T, periods)
          IN  IF delta_t.v < 0
              THEN Raise("ValueError") /\ UNCHANGED loc
              ELSE LET u == UpFactor(underlying.volatility, delta_t)
                   IN  IF u.v = 0
                       THEN Raise("ZeroDivisionError") /\ UNCHANGED loc
                       ELSE LET d == DownFactor(u)
                                pu == UpProbability(underlying.interest_rate,
                                        underlying.dividend, delta_t, u, d)
                            IN  /\ loc' = [loc EXCEPT !.delta_t = delta_t,
                                             !.u = u, !.d = d, !.pu = pu,
                                             !.pd = FSub(One, pu)]
                                /\ pc' = "price_tree"
                                /\ err' = err
  /\ UNCHANGED <<periods, underlying, option, engine, heap, stock_tree,
                 payoff_tree, price_tree, i, j, ret, hist, built, induced>>

\* price_tree, the allocation: tree = np.zeros((n + 1, n + 1))
PriceTreeAlloc ==
  /\ pc = "price_tree"
  /\ stock_tree = 0
  /\ IF periods + 1 < 0
     THEN Raise("ValueError") /\ UNCHANGED <<heap, stock_tree, i, j>>
     ELSE /\ heap' = Append(heap, Zeros(periods))
          /\ stock_tree' = Len(heap) + 1
          /\ err' = err
          /\ IF Len(BuildColumns(periods)) = 0
             THEN pc' = "option_payoff_tree" /\ UNCHANGED <<i, j>>
             ELSE pc' = "price_tree" /\ j' = BuildColumns(periods)[1]
                  /\ i' = Rows(BuildColumns(periods)[1])[1]
  /\ UNCHANGED <<periods, underlying, option, engine, loc, payoff_tree,
                 price_tree, ret, hist, built, induced>>

\* price_tree, one pass of the inner loop: tree[u][j] = ...
PriceTreeStep ==
  /\ pc = "price_tree"
  /\ stock_tree # 0
  /\ heap' = [heap EXCEPT ![stock_tree] =
                Store(@, <<i, j>>,
                      NodePrice(underlying.base_beginning, loc.u, loc.d, i, j))]
  /\ built' = Append(built, <<i, j>>)
  /\ IF ~IsLast(Rows(j), i)
     THEN i' = After(Rows(j), i) /\ UNCHANGED <<j, pc>>
     ELSE IF ~IsLast(BuildColumns(periods), j)
          THEN /\ j' = After(BuildColumns(periods), j)
               /\ i' = Rows(After(BuildColumns(periods), j))[1]
               /\ UNCHANGED pc
          ELSE pc' = "option_payoff_tree" /\ UNCHANGED <<i, j>>
  /\ UNCHANGED <<periods, underlying, option, engine, err, loc, stock_tree,
                 payoff_tree, price_tree, ret, hist, induced>>

\* option_payoff_tree: option.option_payoff(stock_tree), a new array
OptionPayoffTree ==
  /\ pc = "option_payoff_tree"
  /\ heap' = Append(heap, OptionPayoff2d(option, heap[stock_tree]))
  /\ payoff_tree' = Len(heap) + 1
  /\ pc' = "recurse_option_tree"
  /\ UNCHANGED <<periods, underlying, option, engine, err, loc, stock_tree,
                 price_tree, i, j, ret, hist, built, induced>>

\* recurse_option_tree, its first line: price_tree = deepcopy(option_tree)
RecurseCopy ==
  /\ pc = "recurse_option_tree"
  /\ price_tree = 0
  /\ LET c == DeepCopy(heap, payoff_tree)
     IN  /\ heap' = c.heap
         /\ price_tree' = c.ref
  /\ IF Len(InductionColumns(periods)) = 0
     THEN pc' = "return" /\ UNCHANGED <<i, j>>
     ELSE /\ j' = InductionColumns(periods)[1]
          /\ i' = Rows(InductionColumns(periods)[1])[1]
          /\ UNCHANGED pc
  /\ UNCHANGED <<periods, underlying, option, engine, err, loc, stock_tree,
                 payoff_tree, ret, hist, built, induced>>

\* recurse_option_tree, one pass of the inner loop
RecurseStep ==
  /\ pc = "recurse_option_tree"
  /\ price_tree # 0
  /\ LET tree == heap[price_tree]
         option_price == NodeValue(tree, option, i, j, loc.pu, loc.pd,
                                   underlying.interest_rate,
                                   underlying.dividend, loc.delta_t)
     IN  /\ heap' = [heap EXCEPT ![price_tree] = Store(@, <<i, j>>, option_price)]
         /\ induced' = Append(induced, [node |-> <<i, j>>,
                                        reads |-> Reads(tree, option, i, j)])
  /\ IF ~IsLast(Rows(j), i)
     THEN i' = After(Rows(j), i) /\ UNCHANGED <<j, pc>>
     ELSE IF ~IsLast(InductionColumns(periods), j)
          THEN /\ j' = After(InductionColumns(periods), j)
               /\ i' = Rows(After(InductionColumns(periods), j))[1]
               /\ UNCHANGED pc
          ELSE pc' = "return" /\ UNCHANGED <<i, j>>
  /\ UNCHANGED <<periods, underlying, option, engine, err, loc, stock_tree,
                 payoff_tree, price_tree, ret, hist, built>>

\* calc_option_price, its return: price_tree[0][0] and the three lattices
Return ==
  /\ pc = "return"
  /\ IF 0 \notin DOMAIN heap[price_tree]
     THEN Raise("IndexError") /\ UNCHANGED <<ret, hist>>
     ELSE /\ ret' = At(heap[price_tree], <<0, 0>>)
          /\ hist' = [hist EXCEPT ![option.american] =
                        [set |-> TRUE, tree |-> heap[price_tree]]]
          /\ pc' = "returned"
          /\ err' = err
  /\ UNCHANGED <<periods, underlying, option, engine, loc, heap, stock_tree,
                 payoff_tree, price_tree, i, j, built, induced>>

\* ----------------------------------------------------- BlackScholesModel
Half == Fin(Scale \div 2)

\* np.log(S / K) + (((r - q) + 0.5 * volatility**2) * T), over
\* volatility * np.sqrt(T); sgn is 1 for d1 and -1 for d2
BSd(und, o, sgn) ==
  NpDiv(FAdd(NpLog(PyDiv(und.base_beginning, o.strike_price)),
             FMul(FAdd(FSub(und.interest_rate, und.dividend),
                       FMul(Num(sgn), FMul(Half, Pow(und.volatility, 2)))),
                  o.T)),
        FMul(und.volatility, NpSqrt(o.T)))

\* S * exp(-q T) * N(d1) - K * exp(-r T) * N(d2)
BSCall(und, o, Nd1, Nd2) ==
  FSub(FMul(FMul(und.base_beginning, Exp(FMul(FNeg(und.dividend), o.T))), Nd1),
       FMul(FMul(o.strike_price, Exp(FMul(FNeg(und.interest_rate), o.T))), Nd2))

\* K * exp(-r T) * N(-d2) - S * exp(-q T) * N(-d1)
BSPut(und, o, Nminusd1, Nminusd2) ==
  FSub(FMul(FMul(o.strike_price, Exp(FMul(FNeg(und.interest_rate), o.T))),
            Nminusd2),
       FMul(FMul(und.base_beginning, Exp(FMul(FNeg(und.dividend), o.T))),
            Nminusd1))

\* isinstance(option, Call) / isinstance(option, Put)
IsCall(o) == o.kind = "Call"
\* Every option that is no Call priced as a Put.
IsPutOtherwise(o) == ~IsCall(o)
IsPut(o) == o.kind = "Put"

\* The caller prices the contract with the closed-form engine.
CallBlackScholes(american) ==
  /\ Ended
  /\ option' = [option EXCEPT !.american = american]
  /\ engine' = "BlackScholes"
  /\ pc' = "calc_option_price"
  /\ NewFrame(<<>>)
  /\ loc' = NoLoc
  /\ ret' = Zero
  /\ UNCHANGED <<periods, underlying, hist>>

\* BlackScholesModel.calc_option_price: d1, d2 and the four values of N
BSDerive ==
  /\ engine = "BlackScholes"
  /\ pc = "calc_option_price"
  /\ IF option.strike_price.v = 0
     THEN Raise("ZeroDivisionError") /\ UNCHANGED loc
     ELSE LET d1 == BSd(underlying, option, 1)
              d2 == BSd(underlying, option, -1)
          IN  /\ loc' = [loc EXCEPT !.d1 = d1, !.d2 = d2,
                           !.Nd1 = NormCdf(d1), !.Nd2 = NormCdf(d2),
                           !.Nminusd1 = NormCdf(FNeg(d1)),
                           !.Nminusd2 = NormCdf(FNeg(d2))]
              /\ pc' = "dispatch"
              /\ err' = err
  /\ UNCHANGED <<periods, underlying, option, engine, heap, stock_tree,
                 payoff_tree, price_tree, i, j, ret, hist, built, induced>>

\* BlackScholesModel.calc_option_price: the branch on the class of the
\* option, and the return
BSDispatch ==
  /\ engine = "BlackScholes"
  /\ pc = "dispatch"
  /\ IF IsCall(option)
     THEN /\ ret' = BSCall(underlying, option, loc.Nd1, loc.Nd2)
          /\ pc' = "returned"
          /\ err' = err
     ELSE IF IsPut(option)
     THEN /\ ret' = BSPut(underlying, option, loc.Nminusd1, loc.Nminusd2)
          /\ pc' = "returned"
          /\ err' = err
     ELSE Raise("RuntimeError") /\ UNCHANGED ret
  /\ UNCHANGED <<periods, underlying, option, engine, loc, heap, stock_tree,
                 payoff_tree, price_tree, i, j, hist, built, induced>>

\* ------------------------------------------------- payoffs called directly
\* option.option_payoff(price) on a scalar price
PayoffScalar(price) ==
  /\ Ended
  /\ engine' = "option_payoff"
  /\ pc' = "payoff_done"
  /\ NewFrame(<<>>)
  /\ loc' = [NoLoc EXCEPT !.price = price]
  /\ ret' = OptionPayoff(option, price)
  /\ UNCHANGED <<periods, underlying, option, hist>>

\* Option.plot_payoff: self.option_payoff(prices) on an array of prices;
\* heap[1] is the array of prices and heap[2] the array returned
PlotPayoff ==
  /\ Ended
  /\ engine' = "plot_payoff"
  /\ pc' = "payoff_done"
  /\ NewFrame(<<Linspace, OptionPayoff1d(option, Linspace)>>)
  /\ loc' = NoLoc
  /\ ret' = Zero
  /\ UNCHANGED <<periods, underlying, option, hist>>

Next ==
  \/ \E american \in BOOLEAN : CallBinomial(american)
  \/ Derive
  \/ PriceTreeAlloc
  \/ PriceTreeStep
  \/ OptionPayoffTree
  \/ RecurseCopy
  \/ RecurseStep
  \/ Return
  \/ \E american \in BOOLEAN : CallBlackScholes(american)
  \/ BSDerive
  \/ BSDispatch
  \/ \E price \in PayoffPrices : PayoffScalar(price)
  \/ PlotPayoff

Spec == Init /\ [][Next]_vars

\* ------------------------------------------------------------------ claims
InBinomial == engine = "Binomial"
InBlackScholes == engine = "BlackScholes"
CallEnded == pc \in {"returned", "raised"}
\* price_tree has returned its lattice
StockBuilt ==
  InBinomial /\ pc \in {"option_payoff_tree", "recurse_option_tree", "return",
                        "returned"}
\* 0 <= pu <= 1 and u # d
InvalidModel(u, d, pu) == u = d \/ ~(FLe(Zero, pu) /\ FLe(pu, One))
IntMax(a, b) == IF a >= b THEN a ELSE b
IntMin(a, b) == IF a <= b THEN a ELSE b

\* C1: the binomial engine, given periods <= 0 or a maturity T <= 0, builds no
\* lattice and returns no number (it raises instead).
C1_DegenerateRejected ==
  (InBinomial /\ (periods <= 0 \/ option.T.v <= 0))
    => (stock_tree = 0 /\ pc # "returned")

\* C2: when the derived factors have u = d or pu outside [0, 1], the binomial
\* engine starts no lattice construction and returns no price.  Stated for
\* the calls with periods >= 1 and T > 0, which are none of the degenerate
\* inputs of C1.
C2_InvalidModelRejected ==
  (InBinomial /\ periods >= 1 /\ option.T.v > 0
     /\ pc # "calc_option_price" /\ loc # NoLoc
     /\ InvalidModel(loc.u, loc.d, loc.pu))
    => (stock_tree = 0 /\ pc # "returned")

\* C3 as stated: the closed-form engine ends on an option that is neither a
\* Call nor a Put in the unsupported-contract error (RuntimeError), always,
\* and on a Call or a Put never in that error.
C3_AlwaysUnsupported ==
  (InBlackScholes /\ CallEnded)
    => IF IsCall(option) \/ option.kind = "Put"
       THEN err # "RuntimeError"
       ELSE pc = "raised" /\ err = "RuntimeError"

\* C3 as amended: the closed-form engine never returns a price for an option
\* that is neither a Call nor a Put; it ends in the unsupported-contract
\* error unless the derivation of d1 that precedes the check of the class
\* raises first, which it does exactly for a strike price of 0
\* (ZeroDivisionError); on a Call or a Put it never ends in that error.
C3_UnsupportedUnlessDerivationRaises ==
  (InBlackScholes /\ CallEnded)
    => IF IsCall(option) \/ option.kind = "Put"
       THEN err # "RuntimeError"
       ELSE /\ pc = "raised"
            /\ option.strike_price.v # 0 => err = "RuntimeError"
            /\ option.strike_price.v = 0 => err = "ZeroDivisionError"

\* a SprintCertificate with a strike above 0 was rejected by the engine
C3_Witness ==
  /\ InBlackScholes /\ pc = "raised" /\ err = "RuntimeError"
  /\ option.kind = "SprintCertificate" /\ option.strike_price.v > 0

\* C4: the closed-form engine returns no number when the volatility is 0 or
\* the maturity T is 0.
C4_DegenerateRejected ==
  (InBlackScholes /\ (underlying.volatility.v = 0 \/ option.T.v = 0))
    => pc # "returned"

\* C5: of two binomial prices of the same contract and periods, the American
\* value is at no node of the lattice less than the European value.
C5_AmericanAtLeastEuropean ==
  (hist[TRUE].set /\ hist[FALSE].set)
    => \A n \in Nodes(periods) :
         ~FLt(At(hist[TRUE].tree, n), At(hist[FALSE].tree, n))

\* C6: the binomial engine returns value[0][0] and three distinct lattices:
\* the payoff lattice is still the payoff of the stock lattice entry by
\* entry, the terminal columns of value and payoff lattice agree, and no step
\* of the call after its construction changes the stock lattice, nor any step
\* the payoff lattice, the option, the underlying or the periods.
C6_Returned ==
  (InBinomial /\ pc = "returned")
    => /\ ret = At(heap[price_tree], <<0, 0>>)
       /\ {stock_tree, payoff_tree, price_tree} \subseteq DOMAIN heap
       /\ Cardinality({stock_tree, payoff_tree, price_tree}) = 3
       /\ \A a, b \in 0..periods :
            heap[payoff_tree][a][b] = OptionPayoff(option, heap[stock_tree][a][b])
       /\ \A a \in 0..periods :
            heap[price_tree][a][periods] = heap[payoff_tree][a][periods]
C6_Frame ==
  (InBinomial /\ ~Ended)
    => /\ option' = option /\ underlying' = underlying /\ periods' = periods
       /\ (StockBuilt => heap'[stock_tree] = heap[stock_tree])
       /\ (payoff_tree # 0 => heap'[payoff_tree] = heap[payoff_tree])
\* C6, the whole claim: what holds of every returned call, and what every
\* step of a running call leaves unchanged.
C6_LatticesIntact == []C6_Returned /\ [][C6_Frame]_vars

\* a call of two periods returned a value lattice that induction changed
C6_Witness ==
  /\ InBinomial /\ pc = "returned" /\ periods = MaxPeriods
  /\ heap[price_tree] # heap[payoff_tree]
  /\ heap[payoff_tree] # heap[stock_tree]

\* C7: the lattice price_tree returns has periods+1 rows and columns; every
\* entry with row <= column was written exactly once and is
\* spot * u^row * d^(column-row); every entry with row > column was never
\* written and is 0.
C7_PriceTreeBuilt ==
  StockBuilt
    => LET tree == heap[stock_tree]
       IN  /\ DOMAIN tree = 0..periods
           /\ \A a \in 0..periods : DOMAIN tree[a] = 0..periods
           /\ \A a, b \in 0..periods :
                LET writes == {k \in DOMAIN built : built[k] = <<a, b>>}
                IN  IF a <= b
                    THEN /\ Cardinality(writes) = 1
                         /\ tree[a][b] =
                              FMul(FMul(underlying.base_beginning, Pow(loc.u, a)),
                                   Pow(loc.d, b - a))
                    ELSE writes = {} /\ tree[a][b] = Zero

\* a lattice of the largest size, with distinct factors, has been built
C7_Witness ==
  /\ StockBuilt /\ pc = "option_payoff_tree" /\ periods = MaxPeriods
  /\ loc.u # loc.d
  /\ Len(built) = Cardinality(Nodes(periods))

\* the payoffs as the claim states them, on fixed-point values
C8_Expected(o, S) ==
  LET K == o.strike_price.v
  IN  CASE o.kind = "Call" -> Fin(IntMax(0, S.v - K))
        [] o.kind = "Put" -> Fin(IntMax(0, K - S.v))
        [] o.kind = "SprintCertificate" ->
             Fin(IntMin(TruncDiv((o.cap.v - K) * o.factor.v, Scale),
                        IntMax(S.v - K, TruncDiv((S.v - K) * o.factor.v, Scale)))
                 + S.v)

\* C8: Call pays max(0, S - K), Put max(0, K - S), neither ever a negative
\* amount (with K = 100: Call 0, 50, 0 at S = 100, 150, 50 and Put 50, 0 at
\* S = 50, 150), SprintCertificate min((cap - K) * factor, max(S - K,
\* (S - K) * factor)) + S; on an array (of one or of two dimensions) each
\* returns an array of the same shape holding the payoff of each element.
C8_Payoffs ==
  /\ (engine = "option_payoff" /\ pc = "payoff_done")
       => /\ ret = C8_Expected(option, loc.price)
          /\ option.kind \in {"Call", "Put"} => ret.v >= 0
          /\ (option.kind = "Call" /\ option.strike_price = Num(100))
               => /\ loc.price = Num(100) => ret = Zero
                  /\ loc.price = Num(150) => ret = Num(50)
                  /\ loc.price = Num(50) => ret = Zero
          /\ (option.kind = "Put" /\ option.strike_price = Num(100))
               => /\ loc.price = Num(50) => ret = Num(50)
                  /\ loc.price = Num(150) => ret = Zero
  /\ (engine = "plot_payoff" /\ pc = "payoff_done")
       => /\ DOMAIN heap[2] = DOMAIN heap[1]
          /\ \A k \in DOMAIN heap[1] :
               heap[2][k] = C8_Expected(option, heap[1][k])
  /\ (InBinomial /\ payoff_tree # 0)
       => /\ DOMAIN heap[payoff_tree] = DOMAIN heap[stock_tree]
          /\ \A a \in DOMAIN heap[stock_tree] :
               /\ DOMAIN heap[payoff_tree][a] = DOMAIN heap[stock_tree][a]
               /\ \A b \in DOMAIN heap[stock_tree][a] :
                    heap[payoff_tree][a][b] =
                      C8_Expected(option, heap[stock_tree][a][b])

\* a Put struck at 100 was evaluated at 50 and paid 50
C8_Witness ==
  /\ engine = "option_payoff" /\ pc = "payoff_done"
  /\ option.kind = "Put" /\ option.strike_price = Num(100)
  /\ loc.price = Num(50) /\ ret = Num(50)

\* C9: backward induction computes the columns from periods-1 down to 0.
\* When a node [a][b] is computed every node of column b+1 has its final
\* value (it is the terminal column or was computed before, and no entry
\* read there changes afterwards), no node of a column below b and no node
\* twice has been computed; the computation reads [a+1][b+1] and [a][b+1],
\* and its own entry exactly when the option is American, all of them nodes
\* with 0 <= row <= column <= periods, none another node of column b.
C9_ColumnOrder ==
  (InBinomial /\ price_tree # 0)
    => \A k \in DOMAIN induced :
         LET a == induced[k].node[1]
             b == induced[k].node[2]
             nodes == {r.node : r \in induced[k].reads}
         IN  /\ \A c \in 0..(b + 1) :
                  \/ b + 1 = periods
                  \/ \E m \in 1..(k - 1) : induced[m].node = <<c, b + 1>>
             /\ \A m \in 1..(k - 1) :
                  /\ induced[m].node[2] >= b
                  /\ induced[m].node # <<a, b>>
             /\ nodes = {<<a + 1, b + 1>>, <<a, b + 1>>}
                          \cup (IF option.american THEN {<<a, b>>} ELSE {})
             /\ \A n \in nodes :
                  /\ 0 <= n[1] /\ n[1] <= n[2] /\ n[2] <= periods
                  /\ n[2] = b => n = <<a, b>>
             /\ \A r \in induced[k].reads :
                  IF r.node = <<a, b>>
                  THEN r.val = At(heap[payoff_tree], r.node)
                  ELSE r.val = At(heap[price_tree], r.node)

\* the induction of an American option over the largest lattice is complete
C9_Witness ==
  /\ InBinomial /\ pc = "return" /\ option.american /\ periods = MaxPeriods
  /\ {s.node : s \in {induced[k] : k \in DOMAIN induced}}
       = {n \in Nodes(periods) : n[2] < periods}

\* the continuation value of node [a][b] over the value lattice v
C10_Continuation(v, a, b) ==
  FMul(FAdd(FMul(loc.pu, v[a + 1][b + 1]), FMul(loc.pd, v[a][b + 1])),
       Exp(FNeg(FMul(FSub(underlying.interest_rate, underlying.dividend),
                     loc.delta_t))))

\* C10: every interior node computed by backward induction holds
\* (pu * value[a+1][b+1] + pd * value[a][b+1]) * exp(-(r - q) * delta_t) for
\* a European option, and for an American option the larger of that and the
\* payoff of the node's own stock price; when induction is over these are
\* all nodes of the columns below periods.
C10_NodeValues ==
  (InBinomial /\ price_tree # 0)
    => /\ \A k \in DOMAIN induced :
            LET a == induced[k].node[1]
                b == induced[k].node[2]
                v == heap[price_tree]
                continuation == C10_Continuation(v, a, b)
            IN  v[a][b] =
                  IF option.american
                  THEN NpMaximum(continuation,
                                 OptionPayoff(option, heap[stock_tree][a][b]))
                  ELSE continuation
       /\ pc \in {"return", "returned"}
            => {induced[k].node : k \in DOMAIN induced}
                 = {n \in Nodes(periods) : n[2] < periods}

\* an American option was exercised early at an interior node of a lattice
\* priced with a probability inside [0, 1]
C10_Witness ==
  /\ InBinomial /\ pc = "returned" /\ option.american /\ periods = MaxPeriods
  /\ ~InvalidModel(loc.u, loc.d, loc.pu)
  /\ \E n \in Nodes(periods) :
       /\ n[2] < periods
       /\ FLt(C10_Continuation(heap[price_tree], n[1], n[2]),
              At(heap[price_tree], n))

=============================================================================
